---- MODULE Spec2Model ----
(***************************************************************************)
(* Model of backend/services/advanced_ocr.py (class AdvancedOCR): backend  *)
(* selection, the token locator with its per-call fallback, the geometric  *)
(* table reconstruction (detect_table_structure), the normalisation        *)
(* (clean_and_normalize_data) and the pipeline extract_table_from_image.   *)
(*                                                                         *)
(* Numbers.  np.median of integers is an integer or a half-integer, so     *)
(* every median is kept doubled (Median2 = 2 * np.median).  The row        *)
(* threshold max(15, min(50, median_gap * 1.3)) is kept multiplied by 20   *)
(* (YThreshold20), which makes it an integer; the column threshold         *)
(* max(20, median_x_gap * 2) is an integer and is kept as it is.  Column   *)
(* anchors are kept doubled.  Confidences are hundredths (0.9 is 90) and   *)
(* the result's confidence, rounded to four decimals, is in                *)
(* ten-thousandths; where the exact average is halfway between two of them *)
(* the float arithmetic decides, and both sides are allowed.  The result's *)
(* preview and processing time are left out.                               *)
(***************************************************************************)
EXTENDS Integers, Sequences, FiniteSets, TLC

(***************************************************************************)
(* Bounds of the model.                                                    *)
(***************************************************************************)
\* longest token sequence drawn from the token universe
MaxTokens == 3

(***************************************************************************)
(* Helpers: Python built-ins and numpy.                                    *)
(***************************************************************************)
Abs(n) == IF n < 0 THEN -n ELSE n

Max2(a, b) == IF a >= b THEN a ELSE b

Min2(a, b) == IF a <= b THEN a ELSE b

\* insert v into the ascending sequence s
RECURSIVE InsertInt(_, _)
InsertInt(s, v) ==
    IF s = <<>> THEN <<v>>
    ELSE IF v < Head(s) THEN <<v>> \o s
    ELSE <<Head(s)>> \o InsertInt(Tail(s), v)

\* sorted(s) for a sequence of integers
RECURSIVE SortInts(_)
SortInts(s) ==
    IF s = <<>> THEN <<>>
    ELSE InsertInt(SortInts(SubSeq(s, 1, Len(s) - 1)), s[Len(s)])

\* [v[i + 1] - v[i] for i in range(len(v) - 1)]
Gaps(v) == [i \in 1..(Len(v) - 1) |-> v[i + 1] - v[i]]

\* 2 * np.median(s), s non-empty (np.median sorts its argument)
Median2(s) ==
    LET v == SortInts(s)
        n == Len(v)
    IN  IF n % 2 = 1 THEN 2 * v[(n + 1) \div 2]
        ELSE v[n \div 2] + v[n \div 2 + 1]

(***************************************************************************)
(* detect_table_structure, part 1: rows.                                   *)
(***************************************************************************)
\* default of median_gap when there are no gaps (doubled: 2 * 30)
DefaultMedianGap2 == 60

\* YThreshold20 without the lower clamp: min(50, median_gap * 1.3)
YThreshold20NoFloor(text_positions) ==
    LET ys    == [i \in 1..Len(text_positions) |-> text_positions[i].y]
        gaps  == Gaps(SortInts(ys))
        median_gap2 == IF gaps # <<>> THEN Median2(gaps) ELSE 60
    IN  Min2(1000, 13 * median_gap2)

\* 20 * y_threshold, y_threshold = max(15, min(50, median_gap * 1.3))
YThreshold20(text_positions) ==
    LET ys    == [i \in 1..Len(text_positions) |-> text_positions[i].y]
        gaps  == Gaps(SortInts(ys))
        median_gap2 == IF gaps # <<>> THEN Median2(gaps) ELSE DefaultMedianGap2
    IN  Max2(300, Min2(1000, 13 * median_gap2))

\* the item appended to current_row for token i: (text, x, confidence);
\* src is the token's position in text_positions, carried to tell apart
\* tokens with equal fields
RowItem(text_positions, i) ==
    [text |-> text_positions[i].text, x |-> text_positions[i].x,
     confidence |-> text_positions[i].conf, src |-> i]

\* insert item into a row sorted by x, after the items with x <= item.x
RECURSIVE InsertByX(_, _)
InsertByX(row, item) ==
    IF row = <<>> THEN <<item>>
    ELSE IF item.x < Head(row).x THEN <<item>> \o row
    ELSE <<Head(row)>> \o InsertByX(Tail(row), item)

\* current_row.sort(key=lambda item: item[1]): a stable sort by x
RECURSIVE SortByX(_)
SortByX(row) ==
    IF row = <<>> THEN <<>>
    ELSE InsertByX(SortByX(SubSeq(row, 1, Len(row) - 1)), row[Len(row)])

\* RowLoop losing the token that opens a new row: current_row = []
RECURSIVE RowLoopDropsOpener(_, _, _, _)
RowLoopDropsOpener(text_positions, thr20, i, st) ==
    IF i > Len(text_positions) THEN st
    ELSE
      LET y    == text_positions[i].y
          item == RowItem(text_positions, i)
          join == (~st.hasPrev) \/ (20 * Abs(y - st.previous_y) < thr20)
          next == IF join
                  THEN [st EXCEPT !.current_row = Append(@, item),
                                  !.hasPrev = TRUE, !.previous_y = y]
                  ELSE [st EXCEPT
                          !.rows = IF st.current_row # <<>>
                                   THEN Append(@, SortByX(st.current_row))
                                   ELSE @,
                          !.current_row = <<>>,
                          !.hasPrev = TRUE, !.previous_y = y]
      IN  RowLoopDropsOpener(text_positions, thr20, i + 1, next)

\* RowLoop comparing with the first token of the row: previous_y is set
\* only when a row is opened
RECURSIVE RowLoopFromRowStart(_, _, _, _)
RowLoopFromRowStart(text_positions, thr20, i, st) ==
    IF i > Len(text_positions) THEN st
    ELSE
      LET y    == text_positions[i].y
          item == RowItem(text_positions, i)
          join == (~st.hasPrev) \/ (20 * Abs(y - st.previous_y) < thr20)
          next == IF join
                  THEN [st EXCEPT !.current_row = Append(@, item),
                                  !.hasPrev = TRUE,
                                  !.previous_y = IF st.hasPrev THEN @ ELSE y]
                  ELSE [st EXCEPT
                          !.rows = IF st.current_row # <<>>
                                   THEN Append(@, SortByX(st.current_row))
                                   ELSE @,
                          !.current_row = <<item>>,
                          !.hasPrev = TRUE, !.previous_y = y]
      IN  RowLoopFromRowStart(text_positions, thr20, i + 1, next)

\* the loop over text_positions from token i on; st holds rows (the rows
\* closed so far, as sorted item lists), current_row and previous_y
\* (hasPrev = FALSE is previous_y = None)
RECURSIVE RowLoop(_, _, _, _)
RowLoop(text_positions, thr20, i, st) ==
    IF i > Len(text_positions) THEN st
    ELSE
      LET y    == text_positions[i].y
          item == RowItem(text_positions, i)
          join == (~st.hasPrev) \/ (20 * Abs(y - st.previous_y) < thr20)
          next == IF join
                  THEN [st EXCEPT !.current_row = Append(@, item),
                                  !.hasPrev = TRUE, !.previous_y = y]
                  ELSE [st EXCEPT
                          !.rows = IF st.current_row # <<>>
                                   THEN Append(@, SortByX(st.current_row))
                                   ELSE @,
                          !.current_row = <<item>>,
                          !.hasPrev = TRUE, !.previous_y = y]
      IN  RowLoop(text_positions, thr20, i + 1, next)

\* RowItems without the final flush of current_row
RowItemsNoFlush(text_positions) ==
    RowLoop(text_positions, YThreshold20(text_positions), 1,
            [rows |-> <<>>, current_row |-> <<>>,
             hasPrev |-> FALSE, previous_y |-> 0]).rows

\* the rows after the final flush of current_row, as item lists
RowItems(text_positions) ==
    LET st == RowLoop(text_positions, YThreshold20(text_positions), 1,
                      [rows |-> <<>>, current_row |-> <<>>,
                       hasPrev |-> FALSE, previous_y |-> 0])
    IN  IF st.current_row # <<>>
        THEN Append(st.rows, SortByX(st.current_row))
        ELSE st.rows

\* rows: [item[0] for item in current_row] for every row
RowGrid(text_positions) ==
    LET items == RowItems(text_positions)
    IN  [r \in 1..Len(items) |-> [c \in 1..Len(items[r]) |-> items[r][c].text]]

(***************************************************************************)
(* detect_table_structure, part 2: column anchors and realignment.         *)
(***************************************************************************)
\* smallest column gap threshold: col_gap_threshold = max(20, 2 * median)
MinColGap == 20

\* ColGapThreshold without the adaptive part: always 20
ColGapThresholdFixed(x_gaps) == MinColGap

\* col_gap_threshold = max(20, median_x_gap * 2)
ColGapThreshold(x_gaps) == Max2(MinColGap, Median2(x_gaps))

\* the loop over xs_sorted[i..]; st holds column_clusters (doubled medians)
\* and current_cluster
RECURSIVE ClusterLoop(_, _, _, _)
ClusterLoop(xs_sorted, thr, i, st) ==
    IF i > Len(xs_sorted) THEN st
    ELSE
      LET cur  == st.current_cluster
          next == IF xs_sorted[i] - cur[Len(cur)] < thr
                  THEN [st EXCEPT !.current_cluster = Append(@, xs_sorted[i])]
                  ELSE [column_clusters |->
                            Append(st.column_clusters, Median2(cur)),
                        current_cluster |-> <<xs_sorted[i]>>]
      IN  ClusterLoop(xs_sorted, thr, i + 1, next)

\* column_clusters (each anchor doubled); <<>> when the code does not
\* compute them (fewer than two x values)
ColumnClusters(text_positions) ==
    LET xs == [i \in 1..Len(text_positions) |-> text_positions[i].x]
    IN  IF Len(xs) > 1
        THEN LET xs_sorted == SortInts(xs)
                 x_gaps    == Gaps(xs_sorted)
                 st == ClusterLoop(xs_sorted, ColGapThreshold(x_gaps), 2,
                                   [column_clusters |-> <<>>,
                                    current_cluster |-> <<xs_sorted[1]>>])
             IN  IF st.current_cluster # <<>>
                 THEN Append(st.column_clusters, Median2(st.current_cluster))
                 ELSE st.column_clusters
        ELSE <<>>

\* RealignApplies with <= for the second comparison
RealignAppliesInclusive(column_clusters, rows) ==
    IF rows # <<>>
    THEN 1 < Len(column_clusters) /\ Len(column_clusters) <= Len(rows[1])
    ELSE FALSE

\* the condition of line 288: 1 < len(column_clusters) < len(rows[0])
RealignApplies(column_clusters, rows) ==
    IF rows # <<>>
    THEN 1 < Len(column_clusters) /\ Len(column_clusters) < Len(rows[1])
    ELSE FALSE

\* index of the first token whose text is cell_text, 0 when there is none
RECURSIVE FirstWithText(_, _, _)
FirstWithText(text_positions, cell_text, i) ==
    IF i > Len(text_positions) THEN 0
    ELSE IF text_positions[i].text = cell_text THEN i
    ELSE FirstWithText(text_positions, cell_text, i + 1)

\* min(range(len(column_clusters)), key=|cell_x - column_clusters[i]|):
\* the first index at the least distance (1-based here)
RECURSIVE NearestFrom(_, _, _, _)
NearestFrom(column_clusters, cell_x, i, best) ==
    IF i > Len(column_clusters) THEN best
    ELSE IF Abs(2 * cell_x - column_clusters[i])
              < Abs(2 * cell_x - column_clusters[best])
         THEN NearestFrom(column_clusters, cell_x, i + 1, i)
         ELSE NearestFrom(column_clusters, cell_x, i + 1, best)

NearestCol(column_clusters, cell_x) ==
    NearestFrom(column_clusters, cell_x, 2, 1)

\* the loop over the cells of one row from cell k on
RECURSIVE AlignLoop(_, _, _, _, _)
AlignLoop(row, text_positions, column_clusters, k, aligned_row) ==
    IF k > Len(row) THEN aligned_row
    ELSE
      LET cell_text == row[k]
          t == FirstWithText(text_positions, cell_text, 1)
      IN  IF t = 0
          THEN AlignLoop(row, text_positions, column_clusters, k + 1,
                         aligned_row)
          ELSE
            LET nearest_col == NearestCol(column_clusters, text_positions[t].x)
                filled == IF aligned_row[nearest_col] = ""
                          THEN cell_text
                          ELSE aligned_row[nearest_col] \o " " \o cell_text
            IN  AlignLoop(row, text_positions, column_clusters, k + 1,
                          [aligned_row EXCEPT ![nearest_col] = filled])

\* aligned_row of one row
AlignRow(row, text_positions, column_clusters) ==
    AlignLoop(row, text_positions, column_clusters, 1,
              [c \in 1..Len(column_clusters) |-> ""])

\* aligned_rows
AlignedRows(rows, text_positions, column_clusters) ==
    [r \in 1..Len(rows) |-> AlignRow(rows[r], text_positions, column_clusters)]

\* detect_table_structure(text_positions)
detect_table_structure(text_positions) ==
    IF text_positions = <<>> THEN <<>>
    ELSE LET rows == RowGrid(text_positions)
             column_clusters == ColumnClusters(text_positions)
         IN  IF RealignApplies(column_clusters, rows)
             THEN AlignedRows(rows, text_positions, column_clusters)
             ELSE rows

(***************************************************************************)
(* clean_and_normalize_data.                                               *)
(***************************************************************************)
\* row_lengths.count(n)
CountLen(rows, n) == Cardinality({r \in 1..Len(rows) : Len(rows[r]) = n})

\* set(row_lengths) is a CPython hash set; max() goes through it in the
\* order of its table.  The table is kept as a function from slot to
\* length, EmptySlot marking an unused slot; an integer's hash is itself.
EmptySlot == -1

\* the smallest set table (PySet_MINSIZE)
SetMinSize == 8

\* the slots tried in a row before the probe jumps (LINEAR_PROBES)
LinearProbes == 9

\* perturb >>= PERTURB_SHIFT is a division by 32
PerturbDivisor == 32

\* the slot at which key h is found or is to be put, probing from slot i
RECURSIVE SetProbe(_, _, _, _, _)
SetProbe(table, mask, h, i, perturb) ==
    LET probes == IF i + LinearProbes <= mask THEN LinearProbes ELSE 0
        hits   == {j \in 0..probes :
                     table[i + j] = EmptySlot \/ table[i + j] = h}
        p      == perturb \div PerturbDivisor
    IN  IF hits # {}
        THEN i + (CHOOSE j \in hits : \A k \in hits : j <= k)
        ELSE SetProbe(table, mask, h, (i * 5 + 1 + p) % (mask + 1), p)

\* the size of the table after a resize for minused keys
RECURSIVE SetNewSize(_, _)
SetNewSize(newsize, minused) ==
    IF newsize <= minused THEN SetNewSize(2 * newsize, minused) ELSE newsize

\* the keys of the old table from slot i on, put into the new table
RECURSIVE SetReinsert(_, _, _, _)
SetReinsert(old, oldmask, i, new) ==
    IF i > oldmask THEN new
    ELSE IF old[i] = EmptySlot THEN SetReinsert(old, oldmask, i + 1, new)
    ELSE LET mask == Cardinality(DOMAIN new) - 1
             slot == SetProbe(new, mask, old[i], old[i] % (mask + 1), old[i])
         IN  SetReinsert(old, oldmask, i + 1, [new EXCEPT ![slot] = old[i]])

\* set_table_resize: a new table of the size for minused keys, holding the
\* keys of the old one, entered in the order of its slots
SetResize(so, minused) ==
    LET newsize == SetNewSize(SetMinSize, minused)
    IN  [table |-> SetReinsert(so.table, so.mask, 0,
                               [k \in 0..(newsize - 1) |-> EmptySlot]),
         mask |-> newsize - 1, fill |-> so.fill]

\* set_add_entry: key h is entered unless present; the table is resized
\* to hold four times its keys once three fifths of it are in use
SetAdd(so, h) ==
    LET slot == SetProbe(so.table, so.mask, h, h % (so.mask + 1), h)
    IN  IF so.table[slot] = h THEN so
        ELSE LET added == [so EXCEPT !.table[slot] = h, !.fill = @ + 1]
             IN  IF added.fill * 5 < added.mask * 3 THEN added
                 ELSE SetResize(added, added.fill * 4)

\* set(keys): the keys entered one by one into an empty set
RECURSIVE SetFrom(_, _, _)
SetFrom(keys, i, so) ==
    IF i > Len(keys) THEN so ELSE SetFrom(keys, i + 1, SetAdd(so, keys[i]))

\* the keys of the set's table from slot i on
RECURSIVE SetWalk(_, _)
SetWalk(so, i) ==
    IF i > so.mask THEN <<>>
    ELSE IF so.table[i] = EmptySlot THEN SetWalk(so, i + 1)
    ELSE <<so.table[i]>> \o SetWalk(so, i + 1)

\* the keys of set(keys) in the order in which the set is iterated
SetOrder(keys) ==
    SetWalk(SetFrom(keys, 1,
                    [table |-> [k \in 0..(SetMinSize - 1) |-> EmptySlot],
                     mask |-> SetMinSize - 1, fill |-> 0]), 0)

\* max(order, key=row_lengths.count) from order[i] on, best being the
\* greatest so far: a later length replaces it only with a greater count
RECURSIVE MaxByCount(_, _, _, _)
MaxByCount(rows, order, i, best) ==
    IF i > Len(order) THEN best
    ELSE IF CountLen(rows, order[i]) > CountLen(rows, best)
         THEN MaxByCount(rows, order, i + 1, order[i])
         ELSE MaxByCount(rows, order, i + 1, best)

\* max(set(row_lengths), key=row_lengths.count) if row_lengths else 0: the
\* first length, in the set's order, that no other length outnumbers
ModeLength(rows) ==
    LET order == SetOrder([r \in 1..Len(rows) |-> Len(rows[r])])
    IN  IF rows = <<>> THEN 0 ELSE MaxByCount(rows, order, 2, order[1])

\* NormalizeRow without the truncation of a longer row
NormalizeRowNoTruncate(row, num_columns) ==
    [c \in 1..Max2(num_columns, Len(row)) |->
        IF c <= Len(row) THEN row[c] ELSE ""]

\* one normalized row: cells kept, padded with '' or cut to num_columns
NormalizeRow(row, num_columns) ==
    [c \in 1..num_columns |-> IF c <= Len(row) THEN row[c] ELSE ""]

\* normalized_rows
NormalizedRows(rows) ==
    [r \in 1..Len(rows) |-> NormalizeRow(rows[r], ModeLength(rows))]

\* the cells of a DataFrame: NaN, a text, or a number of dtype int64 or
\* float64
NaN == [kind |-> "nan", text |-> "", num |-> 0]

Str(s) == [kind |-> "str", text |-> s, num |-> 0]

Num(kind, n) == [kind |-> kind, text |-> "", num |-> n]

\* a cell of the DataFrame after df.replace('', np.nan)
Cell(s) == IF s = "" THEN NaN ELSE Str(s)

\* the texts of the inputs that pd.to_numeric reads as numbers
NumericTexts == {"7", "25", "30"}

\* the number pd.to_numeric reads from a text of NumericTexts
NumericValue(s) ==
    CASE s = "7" -> 7 [] s = "25" -> 25 [] s = "30" -> 30

\* pd.to_numeric(column, errors='ignore') on a column of texts and NaN:
\* when a text is no number the column is returned as it is; otherwise
\* the texts become int64 numbers, or float64 ones beside a NaN
ToNumeric(column) ==
    IF \E r \in 1..Len(column) :
         column[r].kind = "str" /\ column[r].text \notin NumericTexts
    THEN column
    ELSE LET dtype == IF \E r \in 1..Len(column) : column[r].kind = "nan"
                      THEN "float" ELSE "int"
         IN  [r \in 1..Len(column) |->
                IF column[r].kind = "str"
                THEN Num(dtype, NumericValue(column[r].text))
                ELSE column[r]]

\* the loop of lines 342-346 over the columns.  df[col] is a Series when
\* the label col is that of one column only; for a label that several
\* columns bear it is a DataFrame, pd.to_numeric raises TypeError, which
\* is passed over, and the columns stay as they are.
\* A cell outside the labelled columns is no column's and stays as it is;
\* a column reads NaN in a row that has no cell for it.
CoerceColumns(columns, rows) ==
    [r \in 1..Len(rows) |->
        [c \in 1..Len(rows[r]) |->
            IF /\ c <= Len(columns)
               /\ \A k \in 1..Len(columns) : columns[k] = columns[c] => k = c
            THEN ToNumeric([q \in 1..Len(rows) |->
                              IF c <= Len(rows[q]) THEN rows[q][c] ELSE NaN])[r]
            ELSE rows[r][c]]]

\* pd.DataFrame(): no columns, no rows
EmptyDataFrame == [kind |-> "DataFrame", columns |-> <<>>, rows |-> <<>>]

\* the "data": None of a failure result
NoData == [kind |-> "None", columns |-> <<>>, rows |-> <<>>]

\* clean_and_normalize_data(rows): columns are the header row's labels,
\* rows the data rows with '' replaced by NaN and the columns then passed
\* through pd.to_numeric (as pandas 1.x and 2.x do it).
clean_and_normalize_data(rows) ==
    IF rows = <<>> THEN EmptyDataFrame
    ELSE IF ModeLength(rows) = 0 THEN EmptyDataFrame
    ELSE LET normalized_rows == NormalizedRows(rows)
             header_row == normalized_rows[1]
             data_rows  == Tail(normalized_rows)
             replaced   == [r \in 1..Len(data_rows) |->
                             [c \in 1..Len(data_rows[r]) |->
                                 Cell(data_rows[r][c])]]
         IN  [kind |-> "DataFrame",
              columns |-> header_row,
              rows |-> CoerceColumns(header_row, replaced)]

(***************************************************************************)
(* The locators and extract_text_with_positions.                           *)
(***************************************************************************)
\* lowest confidence a locator keeps, in hundredths (0.2)
MinLocatorConf == 20

\* pixels per Gemini row or column unit: (y * 20, x * 20)
GeminiScale == 20

\* extract_with_google_vision: the words of the image, without those of
\* confidence below 0.2 or of blank text, at their bounding box centres
VisionTokens(words) ==
    SelectSeq(words, LAMBDA w : ~(w.conf < MinLocatorConf \/ w.text = ""))

\* extract_with_gemini: the TEXT|Y|X|CONFIDENCE entries of the response,
\* those with text and confidence >= 0.2, at (y * 20, x * 20)
GeminiTokens(entries) ==
    LET kept == SelectSeq(entries,
                          LAMBDA e : e.text # "" /\ e.conf >= MinLocatorConf)
    IN  [i \in 1..Len(kept) |->
            [text |-> kept[i].text, y |-> kept[i].y * GeminiScale,
             x |-> kept[i].x * GeminiScale, conf |-> kept[i].conf]]

\* the Gemini fallback of lines 205-212 and 216-224.  gemini_env is the
\* test on GEMINI_AVAILABLE and GEMINI_API_KEY; gemini is what the Gemini
\* call does: "tokens" (a response is parsed), "empty" (no response text),
\* "error" (extract_with_gemini catches its own exception and returns [])
\* or "config_raises" (genai.configure or GenerativeModel raises).
\* supplier names the backend whose tokens are returned, model is
\* self.model afterwards.
GeminiFallback(model, image, gemini_env, gemini) ==
    IF gemini_env /\ gemini # "config_raises"
    THEN [tokens   |-> IF gemini = "tokens" THEN GeminiTokens(image) ELSE <<>>,
          supplier |-> "GEMINI_VISION", model |-> TRUE, raised |-> FALSE,
          message  |-> ""]
    ELSE [tokens |-> <<>>, supplier |-> "None", model |-> model,
          raised |-> FALSE, message |-> ""]

\* extract_text_with_positions.  vision is what extract_with_google_vision
\* does: "tokens", "empty" (no words kept) or "raises".
extract_text_with_positions(backend, model, image, vision, gemini_env, gemini) ==
    IF backend = "GOOGLE_VISION"
    THEN IF vision = "tokens" /\ VisionTokens(image) # <<>>
         THEN [tokens |-> VisionTokens(image), supplier |-> "GOOGLE_VISION",
               model |-> model, raised |-> FALSE, message |-> ""]
         ELSE GeminiFallback(model, image, gemini_env, gemini)
    ELSE IF backend = "GEMINI_VISION"
    THEN [tokens   |-> IF gemini = "tokens" THEN GeminiTokens(image) ELSE <<>>,
          supplier |-> "GEMINI_VISION", model |-> model, raised |-> FALSE,
          message  |-> ""]
    ELSE [tokens |-> <<>>, supplier |-> "None", model |-> model,
          raised |-> TRUE, message |-> "Unknown backend: None"]

(***************************************************************************)
(* extract_table_from_image.                                               *)
(***************************************************************************)
\* the failure results of lines 357-366, 371-380 and 401-410
Failure(error, backend) ==
    [success |-> FALSE, error |-> error, rows_extracted |-> 0,
     columns_detected |-> 0, data |-> NoData, confidence |-> 0,
     backend |-> backend]

\* 100 * sum of the confidences, which divided by their number is the
\* average in ten-thousandths
RECURSIVE ConfidenceSum(_)
ConfidenceSum(text_positions) ==
    IF text_positions = <<>> THEN 0
    ELSE 100 * Head(text_positions).conf + ConfidenceSum(Tail(text_positions))

\* the exact average lies halfway between two ten-thousandths
IsHalf(text_positions) ==
    2 * (ConfidenceSum(text_positions) % Len(text_positions))
      = Len(text_positions)

\* the sides on which the float average of the call may lie: when the exact
\* average is halfway between two ten-thousandths, round() follows the
\* float, which the roundings of the sum and of the division put above
\* (TRUE) or below (FALSE) it
HalfSides(text_positions) ==
    IF text_positions # <<>> /\ IsHalf(text_positions) THEN BOOLEAN
    ELSE {FALSE}

\* round(float(avg_conf), 4) in ten-thousandths, confidences being
\* hundredths; half_up is the side of the float average at a half
Confidence(text_positions, half_up) ==
    LET n == Len(text_positions)
        q == ConfidenceSum(text_positions) \div n
        r == ConfidenceSum(text_positions) % n
    IN  IF 2 * r > n THEN q + 1
        ELSE IF 2 * r < n THEN q
        ELSE IF half_up THEN q + 1 ELSE q

\* Success counting the header among the extracted rows
SuccessCountsHeader(df, text_positions, backend, half_up) ==
    [success |-> TRUE, rows_extracted |-> Len(df.rows) + 1,
     columns_detected |-> Len(df.columns), data |-> df,
     confidence |-> Confidence(text_positions, half_up), backend |-> backend]

\* the success result of lines 389-398
Success(df, text_positions, backend, half_up) ==
    [success |-> TRUE, rows_extracted |-> Len(df.rows),
     columns_detected |-> Len(df.columns), data |-> df,
     confidence |-> Confidence(text_positions, half_up), backend |-> backend]

\* extract_table_from_image without its except clause
extract_table_from_image_uncaught(backend, located, fault, message, half_up) ==
    IF located.raised \/ fault = "locator"
    THEN [result |-> Failure("", "None"), propagated |-> TRUE]
    ELSE IF located.tokens = <<>>
    THEN [result |-> Failure("No text detected", backend),
          propagated |-> FALSE]
    ELSE IF fault = "detect"
    THEN [result |-> Failure("", "None"), propagated |-> TRUE]
    ELSE LET rows == detect_table_structure(located.tokens)
         IN  IF rows = <<>>
             THEN [result |-> Failure("Could not detect table structure",
                                      backend),
                   propagated |-> FALSE]
             ELSE IF fault = "normalize"
             THEN [result |-> Failure("", "None"), propagated |-> TRUE]
             ELSE [result |-> Success(clean_and_normalize_data(rows),
                                      located.tokens, backend, half_up),
                   propagated |-> FALSE]

\* extract_table_from_image from the locator's answer on.  located is
\* what extract_text_with_positions gave; fault names the stage in which
\* an exception is raised ("none", "locator", "detect", "normalize") and
\* message is its text; half_up is the side of the float average of the
\* confidences (HalfSides).  propagated tells whether an exception leaves
\* the method.
extract_table_from_image(backend, located, fault, message, half_up) ==
    IF located.raised
    THEN [result |-> Failure(located.message, backend), propagated |-> FALSE]
    ELSE IF fault = "locator"
    THEN [result |-> Failure(message, backend), propagated |-> FALSE]
    ELSE IF located.tokens = <<>>
    THEN [result |-> Failure("No text detected", backend),
          propagated |-> FALSE]
    ELSE IF fault = "detect"
    THEN [result |-> Failure(message, backend), propagated |-> FALSE]
    ELSE LET rows == detect_table_structure(located.tokens)
         IN  IF rows = <<>>
             THEN [result |-> Failure("Could not detect table structure",
                                      backend),
                   propagated |-> FALSE]
             ELSE IF fault = "normalize"
             THEN [result |-> Failure(message, backend), propagated |-> FALSE]
             ELSE [result |-> Success(clean_and_normalize_data(rows),
                                      located.tokens, backend, half_up),
                   propagated |-> FALSE]

(***************************************************************************)
(* __init__.                                                               *)
(***************************************************************************)
\* __init__: vision_env is GOOGLE_VISION_AVAILABLE and the credentials
\* variable being set, client_raises whether ImageAnnotatorClient() raises,
\* gemini_env the test of line 56, model_raises whether configuring Gemini
\* raises.  raised is the RuntimeError of line 67.
Initialize(vision_env, client_raises, gemini_env, model_raises) ==
    IF vision_env /\ ~client_raises
    THEN [backend |-> "GOOGLE_VISION", client |-> TRUE, model |-> FALSE,
          raised |-> FALSE]
    ELSE IF gemini_env /\ ~model_raises
    THEN [backend |-> "GEMINI_VISION", client |-> FALSE, model |-> TRUE,
          raised |-> FALSE]
    ELSE [backend |-> "None", client |-> FALSE, model |-> FALSE,
          raised |-> TRUE]

(***************************************************************************)
(* Inputs.                                                                 *)
(***************************************************************************)
Tok(t, y, x, c) == [text |-> t, y |-> y, x |-> x, conf |-> c]

Texts == {"a", "7"}

Ys == {10, 25}

Xs == {5, 60}

\* the words an image can hold
Words == {Tok(t, y, x, 90) : t \in Texts, y \in Ys, x \in Xs}

\* the scenario of a complete 3 x 2 grid in reading order
GridExample ==
    <<Tok("Name", 10, 5, 90), Tok("Age", 10, 60, 85), Tok("Alice", 40, 5, 95),
      Tok("30", 40, 62, 90), Tok("Bob", 70, 6, 88), Tok("25", 70, 59, 92)>>

\* five words of one line at x = 5, 8, 60, 62, 120
ColumnExample ==
    <<Tok("a", 10, 5, 90), Tok("b", 10, 8, 90), Tok("c", 10, 60, 90),
      Tok("d", 10, 62, 90), Tok("e", 10, 120, 90)>>

\* five words at y = 10, 12, 40, 42, 70
RowExample ==
    <<Tok("a", 10, 5, 90), Tok("b", 12, 60, 90), Tok("c", 40, 5, 90),
      Tok("d", 42, 60, 90), Tok("e", 70, 5, 90)>>

\* three words on lines 10 apart: each is near the one before it, the
\* third is not near the first
ChainExample ==
    <<Tok("a", 10, 5, 90), Tok("b", 20, 60, 90), Tok("c", 30, 5, 90)>>

\* two lines, the first of three words of which two share a column
RealignExample ==
    <<Tok("a", 10, 5, 90), Tok("b", 10, 8, 90), Tok("c", 10, 60, 90),
      Tok("d", 40, 5, 90), Tok("e", 40, 60, 90)>>

\* a line of eight words and a line of one
WideExample ==
    <<Tok("w1", 10, 5, 90), Tok("w2", 10, 60, 90), Tok("w3", 10, 115, 90),
      Tok("w4", 10, 170, 90), Tok("w5", 10, 225, 90), Tok("w6", 10, 280, 90),
      Tok("w7", 10, 335, 90), Tok("w8", 10, 390, 90), Tok("7", 40, 5, 90)>>

\* eight words whose confidences average 0.90125, halfway between 0.9012
\* and 0.9013
HalfExample ==
    <<Tok("a", 10, 5, 91), Tok("b", 10, 60, 90), Tok("c", 10, 115, 90),
      Tok("d", 10, 170, 90), Tok("7", 40, 5, 90), Tok("30", 40, 60, 90),
      Tok("e", 40, 115, 90), Tok("25", 70, 60, 90)>>

\* a word of low confidence and a blank one, which the locators drop
FilterExample ==
    <<Tok("a", 10, 5, 90), Tok("7", 10, 60, 10), Tok("", 25, 5, 90)>>

\* what an image holds: the recognisable words, in the order and at the
\* positions the answering backend reports them
Images ==
    UNION {[1..n -> Words] : n \in 1..MaxTokens}
      \cup {GridExample, ColumnExample, RowExample, ChainExample,
            RealignExample, WideExample, HalfExample, FilterExample}

FaultMessages == {"fault"}

\* what the Vision call can do; it is made by the GOOGLE_VISION backend only
VisionOutcomes(b) ==
    IF b = "GOOGLE_VISION" THEN {"tokens", "empty", "raises"} ELSE {"not called"}

\* the values of the fallback's test on the Gemini environment, which the
\* GEMINI_VISION backend does not make
GeminiEnvs(b) == IF b = "GOOGLE_VISION" THEN BOOLEAN ELSE {TRUE}

\* what the Gemini call can do; only the fallback configures Gemini anew
GeminiOutcomes(b) ==
    IF b = "GOOGLE_VISION" THEN {"tokens", "empty", "error", "config_raises"}
    ELSE {"tokens", "empty", "error"}

(***************************************************************************)
(* State.                                                                  *)
(***************************************************************************)
VARIABLES
    pc,              \* "new", "ready", "unavailable" (__init__ raised), "done"
    backend,         \* self.backend
    client,          \* self.client is set
    model,           \* self.model is set
    image,           \* the image of the call
    text_positions,  \* what extract_text_with_positions returned
    supplier,        \* the backend whose call produced text_positions
    fault_at,        \* the stage of the call in which an exception was raised
    result,          \* what extract_table_from_image returned
    propagated       \* an exception left extract_table_from_image

vars == <<pc, backend, client, model, image, text_positions, supplier,
          fault_at, result, propagated>>

Init ==
    /\ pc = "new"
    /\ backend = "None"
    /\ client = FALSE
    /\ model = FALSE
    /\ image \in Images
    /\ text_positions = <<>>
    /\ supplier = "None"
    /\ fault_at = "none"
    /\ result = Failure("", "None")
    /\ propagated = FALSE

\* AdvancedOCR()
Construct ==
    /\ pc = "new"
    /\ \E vision_env \in BOOLEAN, client_raises \in BOOLEAN,
          gemini_env \in BOOLEAN, model_raises \in BOOLEAN :
         LET made == Initialize(vision_env, client_raises, gemini_env,
                                model_raises)
         IN  /\ pc' = IF made.raised THEN "unavailable" ELSE "ready"
             /\ backend' = made.backend
             /\ client' = made.client
             /\ model' = made.model
    /\ UNCHANGED <<image, text_positions, supplier, fault_at, result,
                   propagated>>

\* extract_table_from_image(image_path)
ExtractTableFromImage ==
    /\ pc = "ready"
    /\ \E vision \in VisionOutcomes(backend),
          gemini_env \in GeminiEnvs(backend),
          gemini \in GeminiOutcomes(backend),
          fault \in {"none", "locator", "detect", "normalize"},
          message \in FaultMessages :
         LET located == extract_text_with_positions(backend, model, image,
                                                    vision, gemini_env, gemini)
         IN  \E half_up \in HalfSides(located.tokens) :
               LET out == extract_table_from_image(backend, located, fault,
                                                   message, half_up)
               IN  /\ text_positions' = IF fault = "locator" THEN <<>>
                                        ELSE located.tokens
                   /\ supplier' = IF fault = "locator" THEN "None"
                                  ELSE located.supplier
                   /\ model' = located.model
                   /\ fault_at' = fault
                   /\ result' = out.result
                   /\ propagated' = out.propagated
    /\ pc' = "done"
    /\ UNCHANGED <<backend, client, image>>

Next == Construct \/ ExtractTableFromImage

Spec == Init /\ [][Next]_vars

(***************************************************************************)
(* Properties.                                                             *)
(***************************************************************************)
\* a call has returned with tokens from the locator
Located == pc = "done" /\ text_positions # <<>>

\* the positions <<r, c>> of the rows at which token i sits
PlacesOf(items, i) ==
    {rc \in UNION {{<<r, c>> : c \in 1..Len(items[r])} : r \in 1..Len(items)} :
        items[rc[1]][rc[2]].src = i}

\* the number of cells of a grid
RECURSIVE CellCount(_)
CellCount(rows) ==
    IF rows = <<>> THEN 0 ELSE Len(Head(rows)) + CellCount(Tail(rows))

\* C1: row clustering neither drops nor duplicates tokens: the rows built
\* before any realignment hold as many cells as there are tokens, and every
\* token sits at exactly one place of exactly one row, where its text is.
C1_RowsPartitionTokens ==
    Located =>
      LET items == RowItems(text_positions)
          rows  == RowGrid(text_positions)
      IN  /\ CellCount(rows) = Len(text_positions)
          /\ \A i \in 1..Len(text_positions) :
               /\ Cardinality(PlacesOf(items, i)) = 1
               /\ \A rc \in PlacesOf(items, i) :
                    rows[rc[1]][rc[2]] = text_positions[i].text

\* three tokens, two of the same text, clustered into two rows
C1_Witness ==
    /\ Located
    /\ Len(text_positions) = 3
    /\ Len(RowGrid(text_positions)) = 2
    /\ text_positions[1].text = text_positions[3].text

ResultFields ==
    {"success", "rows_extracted", "columns_detected", "data", "confidence",
     "backend"}

\* C2: extract_table_from_image always returns a Result and lets no
\* exception out; a Result with success = false has rows_extracted = 0,
\* columns_detected = 0, confidence = 0 and no table; and when the locator
\* returned zero tokens the error is "No text detected".
C2_AlwaysAResult ==
    pc = "done" =>
      /\ ~propagated
      /\ ResultFields \subseteq DOMAIN result
      /\ result.success \in BOOLEAN
      /\ ~result.success =>
           /\ "error" \in DOMAIN result
           /\ result.rows_extracted = 0
           /\ result.columns_detected = 0
           /\ result.confidence = 0
           /\ result.data = NoData
      /\ (fault_at # "locator" /\ text_positions = <<>>) =>
           /\ ~result.success
           /\ result.error = "No text detected"

\* a later stage raised after the locator had returned tokens
C2_Witness ==
    /\ Located
    /\ fault_at = "normalize"
    /\ ~result.success
    /\ result.error = "fault"

\* a call in which the locator returned nothing
C2_WitnessNoText ==
    /\ pc = "done"
    /\ fault_at = "none"
    /\ text_positions = <<>>
    /\ result.error = "No text detected"

\* C3: in every successful Result the backend field names the backend that
\* supplied the tokens the table was built from.
C3_BackendNamesSupplier ==
    (pc = "done" /\ result.success) => result.backend = supplier

\* the rows of the table of a successful result, header first, every
\* cell as the text it holds ('' for a missing cell, the text that reads
\* as the number for a number)
TableRows(df) ==
    <<df.columns>> \o
    [r \in 1..Len(df.rows) |->
        [c \in 1..Len(df.rows[r]) |->
            LET cell == df.rows[r][c]
            IN  IF cell.kind = "nan" THEN ""
                ELSE IF cell.kind = "str" THEN cell.text
                ELSE CHOOSE t \in NumericTexts : NumericValue(t) = cell.num]]

\* C4: the table is rectangular: header and data rows have W cells, W a
\* most frequent row length of the grid; a shorter row is padded on the
\* right with empty cells, a longer one loses only trailing cells; and
\* W >= 1 for the grid of a non-empty token sequence.
C4_Rectangular ==
    (pc = "done" /\ result.success) =>
      LET grid  == detect_table_structure(text_positions)
          table == TableRows(result.data)
          W     == Len(result.data.columns)
      IN  /\ Len(table) = Len(grid)
          /\ W >= 1
          /\ \E r \in 1..Len(grid) : Len(grid[r]) = W
          /\ \A n \in 0..Len(text_positions) :
               CountLen(grid, n) <= CountLen(grid, W)
          /\ \A r \in 1..Len(grid) :
               /\ Len(table[r]) = W
               /\ \A c \in 1..W :
                    table[r][c] = IF c <= Len(grid[r]) THEN grid[r][c] ELSE ""

\* a table with a padded row and a table with a truncated row
C4_Witness ==
    /\ pc = "done"
    /\ result.success
    /\ \E r \in 1..Len(detect_table_structure(text_positions)) :
         Len(detect_table_structure(text_positions)[r])
           # Len(result.data.columns)

\* a line of eight cells and a line of one, each length occurring once:
\* the table has the eight columns of the length the set yields first
C4_WitnessWide ==
    /\ pc = "done"
    /\ result.success
    /\ text_positions = WideExample
    /\ Len(result.data.columns) = 8
    /\ result.data.rows[1][1] = Num("int", 7)
    /\ result.data.rows[1][8] = NaN

\* C5: realignment is applied if and only if 1 < |anchors| < len(first
\* row); when applied, every row of the returned grid has |anchors| cells;
\* when not, the returned grid is the row-clustered grid.
C5_RealignCondition ==
    Located =>
      LET rows    == RowGrid(text_positions)
          anchors == ColumnClusters(text_positions)
          grid    == detect_table_structure(text_positions)
      IN  IF 1 < Len(anchors) /\ Len(anchors) < Len(rows[1])
          THEN /\ grid # rows
               /\ Len(grid) = Len(rows)
               /\ \A r \in 1..Len(grid) : Len(grid[r]) = Len(anchors)
          ELSE grid = rows

\* a grid of two rows that was realigned, with a merged cell
C5_Witness ==
    /\ Located
    /\ detect_table_structure(text_positions) = <<<<"a b", "c">>, <<"d", "e">>>>
    /\ RowGrid(text_positions) = <<<<"a", "b", "c">>, <<"d", "e">>>>

\* two anchors and a first row of two cells: not realigned
C5_WitnessNotApplied ==
    /\ Located
    /\ Len(ColumnClusters(text_positions)) = 2
    /\ Len(RowGrid(text_positions)[1]) = 2

\* C6: on a successful Result rows_extracted is the number of grid rows
\* minus one and columns_detected the table width W; tokens clustering into
\* exactly one row give success with a header, rows_extracted = 0 and no
\* error.
C6_Counts ==
    /\ (pc = "done" /\ result.success) =>
         /\ result.rows_extracted
              = Len(detect_table_structure(text_positions)) - 1
         /\ result.rows_extracted = Len(result.data.rows)
         /\ result.columns_detected = Len(result.data.columns)
         /\ result.columns_detected
              = ModeLength(detect_table_structure(text_positions))
    /\ (Located /\ fault_at = "none"
          /\ Len(RowGrid(text_positions)) = 1) =>
         /\ result.success
         /\ "error" \notin DOMAIN result
         /\ result.rows_extracted = 0
         /\ result.data.columns # <<>>
         /\ result.data.rows = <<>>

\* a success with data rows
C6_Witness ==
    /\ pc = "done"
    /\ result.success
    /\ result.rows_extracted = 2

\* a success from a single row
C6_WitnessOneRow ==
    /\ Located
    /\ result.success
    /\ Len(RowGrid(text_positions)) = 1
    /\ Len(text_positions) = 2

\* C7: the tokens of the 3 x 2 grid cluster into 3 rows, no cell is merged,
\* and the result is a success with header [Name, Age], data rows
\* [Alice, 30] and [Bob, 25] (the Age column numeric), rows_extracted = 2
\* and columns_detected = 2.
C7_GridScenario ==
    (pc = "done" /\ text_positions = GridExample /\ fault_at = "none") =>
      /\ Len(RowGrid(text_positions)) = 3
      /\ detect_table_structure(text_positions) = RowGrid(text_positions)
      /\ result.success
      /\ result.data.columns = <<"Name", "Age">>
      /\ TableRows(result.data) =
           << <<"Name", "Age">>, <<"Alice", "30">>, <<"Bob", "25">> >>
      /\ result.data.rows =
           << <<Str("Alice"), Num("int", 30)>>, <<Str("Bob"), Num("int", 25)>> >>
      /\ result.rows_extracted = 2
      /\ result.columns_detected = 2

C7_Witness ==
    /\ pc = "done"
    /\ text_positions = GridExample
    /\ fault_at = "none"
    /\ result.success

\* the x values of the tokens, sorted
SortedXs(tokens) == SortInts([i \in 1..Len(tokens) |-> tokens[i].x])

\* C8 as stated: tokens with x = 5, 8, 60, 62, 120 give the three anchors
\* 6.5, 61 and 120 (doubled: 13, 122, 240).
C8_ThreeAnchors ==
    (Located /\ SortedXs(text_positions) = <<5, 8, 60, 62, 120>>) =>
      ColumnClusters(text_positions) = <<13, 122, 240>>

\* C8 amended: tokens with x = 5, 8, 60, 62, 120 give the derived
\* threshold 55 (twice the median 27.5 of the gaps 3, 52, 2, 58) and the
\* two anchors 34 and 120 (doubled: 68, 240).
C8_TwoAnchors ==
    (Located /\ SortedXs(text_positions) = <<5, 8, 60, 62, 120>>) =>
      /\ ColGapThreshold(Gaps(SortedXs(text_positions))) = 55
      /\ ColumnClusters(text_positions) = <<68, 240>>

C8_Witness ==
    /\ Located
    /\ text_positions = ColumnExample

\* the row of token i
RowOf(items, i) ==
    CHOOSE r \in 1..Len(items) : \E c \in 1..Len(items[r]) : items[r][c].src = i

\* 20 * clamp(1.3 * median gap, 15, 50), the median being 30 without gaps
ClampedThreshold20(tokens) ==
    LET gaps == Gaps(SortInts([i \in 1..Len(tokens) |-> tokens[i].y]))
        m2   == IF Len(gaps) = 0 THEN 60 ELSE Median2(gaps)
    IN  IF 13 * m2 < 300 THEN 300
        ELSE IF 13 * m2 > 1000 THEN 1000 ELSE 13 * m2

\* C9: the rows are contiguous runs of the token sequence in its order: a
\* row boundary lies between tokens i and i + 1 if and only if
\* |y(i+1) - y(i)| >= clamp(1.3 * median gap, 15, 50); tokens with
\* y = 10, 12, 40, 42, 70 form the rows {10, 12}, {40, 42}, {70}.
C9_ChainedRows ==
    Located =>
      LET items == RowItems(text_positions)
          n     == Len(text_positions)
          ys    == [i \in 1..n |-> text_positions[i].y]
      IN  /\ RowOf(items, 1) = 1
          /\ RowOf(items, n) = Len(items)
          /\ \A i \in 1..(n - 1) :
               RowOf(items, i + 1) =
                 IF 20 * Abs(ys[i + 1] - ys[i])
                      >= ClampedThreshold20(text_positions)
                 THEN RowOf(items, i) + 1
                 ELSE RowOf(items, i)
          /\ ys = <<10, 12, 40, 42, 70>> =>
               [i \in 1..n |-> RowOf(items, i)] = <<1, 1, 2, 2, 3>>

\* three tokens joined in one row though the third is not near the first
C9_Witness ==
    /\ Located
    /\ text_positions = ChainExample
    /\ Len(RowItems(text_positions)) = 1

\* the rows of y = 10, 12, 40, 42, 70
C9_WitnessExample ==
    /\ Located
    /\ text_positions = RowExample
    /\ Len(RowItems(text_positions)) = 3

\* C10: the grid of a non-empty token sequence is non-empty and each of its
\* rows has at least one cell; so a call whose locator returned a token
\* never fails with "Could not detect table structure".
C10_GridNonEmpty ==
    Located =>
      LET grid == detect_table_structure(text_positions)
      IN  /\ grid # <<>>
          /\ \A r \in 1..Len(grid) : Len(grid[r]) >= 1
          /\ result.success \/ result.error # "Could not detect table structure"
          /\ fault_at = "none" => result.success

\* a realigned grid, of a successful call
C10_Witness ==
    /\ Located
    /\ result.success
    /\ detect_table_structure(text_positions) # RowGrid(text_positions)

====
